---------------------------- MODULE Spec2Model ----------------------------
(***************************************************************************)
(* A model of scripts/bump_version.py: the version bump of a plugin        *)
(* manifest.  Strings the script splits, parses and formats are sequences  *)
(* of one-character strings, so that split('.'), int() and the f-string    *)
(* formatting are modelled by what they do.                                *)
(***************************************************************************)
EXTENDS Integers, Sequences, FiniteSets, TLC

(***************************************************************************)
(* Bounds of the model.                                                    *)
(***************************************************************************)
\* Longest version string handed to bump_version in BumpSpec.
MaxLen == 6
\* Most successful invocations in a row in Spec.
MaxRuns == 3
\* Most members of the manifest object in the initial file.
MaxMembers == 2

(***************************************************************************)
(* Python values.  Every value is a record [t, s]: t is the type, s the    *)
(* text of a str (or the literal of a JSON number).                        *)
(***************************************************************************)
Str(s) == [t |-> "str", s |-> s]
Num(s) == [t |-> "num", s |-> s]
Null == [t |-> "null", s |-> <<>>]
None == [t |-> "none", s |-> <<>>]

\* Python truthiness of a value: None, "" and a number that is zero are false.
Truthy(v) ==
    CASE v.t = "none" -> FALSE
      [] v.t = "null" -> FALSE
      [] v.t = "str"  -> Len(v.s) > 0
      [] OTHER        -> \E i \in 1..Len(v.s) : v.s[i] \notin {"0", "-", "."}

(***************************************************************************)
(* str.split('.'), int(str) and str(int).                                  *)
(***************************************************************************)
Digits == <<"0", "1", "2", "3", "4", "5", "6", "7", "8", "9">>

IsDigit(c) == \E i \in 1..Len(Digits) : Digits[i] = c

DigitVal(c) == (CHOOSE i \in 1..Len(Digits) : Digits[i] = c) - 1

IsSpace(c) == c = " "

\* version_str.split('.'): the fields between the dots; "" gives [""].
RECURSIVE Split(_)
Split(s) ==
    IF \A i \in 1..Len(s) : s[i] # "."
    THEN <<s>>
    ELSE LET i == CHOOSE j \in 1..Len(s) :
                     s[j] = "." /\ \A h \in 1..(j - 1) : s[h] # "."
         IN  <<SubSeq(s, 1, i - 1)>> \o Split(SubSeq(s, i + 1, Len(s)))

\* int() ignores white space around the literal.
RECURSIVE Strip(_)
Strip(s) ==
    IF s = <<>> THEN s
    ELSE IF IsSpace(s[1]) THEN Strip(Tail(s))
    ELSE IF IsSpace(s[Len(s)]) THEN Strip(SubSeq(s, 1, Len(s) - 1))
    ELSE s

HasSign(s) == s # <<>> /\ s[1] \in {"+", "-"}

Unsigned(s) == IF HasSign(s) THEN Tail(s) ELSE s

\* The literals int() accepts in base 10: an optional sign, then digits with
\* single underscores between them.
IsIntLiteral(s) ==
    LET b == Unsigned(Strip(s))
    IN  /\ Len(b) > 0
        /\ IsDigit(b[1])
        /\ IsDigit(b[Len(b)])
        /\ \A i \in 1..Len(b) : IsDigit(b[i]) \/ b[i] = "_"
        /\ \A i \in 1..(Len(b) - 1) : ~(b[i] = "_" /\ b[i + 1] = "_")

RECURSIVE NatOf(_)
NatOf(b) ==
    IF b = <<>> THEN 0
    ELSE IF b[Len(b)] = "_" THEN NatOf(SubSeq(b, 1, Len(b) - 1))
    ELSE 10 * NatOf(SubSeq(b, 1, Len(b) - 1)) + DigitVal(b[Len(b)])

\* int(s) for a literal int() accepts.
IntOf(s) ==
    LET t == Strip(s)
    IN  IF t[1] = "-" THEN 0 - NatOf(Unsigned(t)) ELSE NatOf(Unsigned(t))

RECURSIVE NatToStr(_)
NatToStr(n) ==
    IF n < 10 THEN <<Digits[n + 1]>>
    ELSE NatToStr(n \div 10) \o <<Digits[(n % 10) + 1]>>

\* The text an f-string gives an int.
IntToStr(n) == IF n < 0 THEN <<"-">> \o NatToStr(0 - n) ELSE NatToStr(n)

(***************************************************************************)
(* bump_version.  The result is [exc, val]: exc is the exception that      *)
(* leaves the function ("none" when it returns), val the value returned.   *)
(***************************************************************************)
DefaultBumpType == "patch"

\* A variant that reads parts[0], parts[1] and parts[2] and never counts the
\* fields.
UnpackOk_FirstThree(parts) ==
    /\ Len(parts) >= 3
    /\ \A i \in 1..3 : IsIntLiteral(parts[i])

\* major, minor, patch = map(int, parts) succeeds.
UnpackOk(parts) ==
    /\ Len(parts) = 3
    /\ \A i \in 1..3 : IsIntLiteral(parts[i])

\* A variant whose minor bump leaves patch as it was.
Bumped_MinorKeepsPatch(major, minor, patch, bump_type) ==
    IF bump_type = "major" THEN <<major + 1, 0, 0>>
    ELSE IF bump_type = "minor" THEN <<major, minor + 1, patch>>
    ELSE <<major, minor, patch + 1>>

\* A variant whose major bump resets minor and patch and adds nothing.
Bumped_MajorOnlyResets(major, minor, patch, bump_type) ==
    IF bump_type = "major" THEN <<major, 0, 0>>
    ELSE IF bump_type = "minor" THEN <<major, minor + 1, 0>>
    ELSE <<major, minor, patch + 1>>

\* The increment and resets of one bump.
Bumped(major, minor, patch, bump_type) ==
    IF bump_type = "major" THEN <<major + 1, 0, 0>>
    ELSE IF bump_type = "minor" THEN <<major, minor + 1, 0>>
    ELSE <<major, minor, patch + 1>>

\* f"{major}.{minor}.{patch}"
FormatVersion(t) ==
    IntToStr(t[1]) \o <<".">> \o IntToStr(t[2]) \o <<".">> \o IntToStr(t[3])

bump_version(version_str, bump_type) ==
    IF version_str.t # "str"
    THEN [exc |-> "AttributeError", val |-> None]
    ELSE LET parts == Split(version_str.s)
         IN  IF ~UnpackOk(parts)
             THEN [exc |-> "none", val |-> None]
             ELSE [exc |-> "none",
                   val |-> Str(FormatVersion(
                       Bumped(IntOf(parts[1]), IntOf(parts[2]),
                              IntOf(parts[3]), bump_type)))]

(***************************************************************************)
(* The manifest file.  A file is [k, members, fmt, tail]:                  *)
(*   k = "missing"  no file at the path                                    *)
(*   k = "empty"    a file of no bytes (as open(.., 'w') leaves it)        *)
(*   k = "text"     the text `not json`                                    *)
(*   k = "array"    the JSON text `[1]`                                    *)
(*   k = "object"   a JSON object: members are its "key": value pairs in   *)
(*                  the order of the text, fmt its layout, and tail the    *)
(*                  number of bytes that follow the object's text.         *)
(***************************************************************************)
MissingFile == [k |-> "missing", members |-> <<>>, fmt |-> "none", tail |-> 0]
EmptyFile == [k |-> "empty", members |-> <<>>, fmt |-> "none", tail |-> 0]
TextFile == [k |-> "text", members |-> <<>>, fmt |-> "none", tail |-> 0]
ArrayFile == [k |-> "array", members |-> <<>>, fmt |-> "none", tail |-> 0]
ObjectFile(members, fmt, tail) ==
    [k |-> "object", members |-> members, fmt |-> fmt, tail |-> tail]

(***************************************************************************)
(* dict: the pairs <<key, value>> in insertion order, keys distinct.       *)
(***************************************************************************)
HasKey(d, key) == \E i \in 1..Len(d) : d[i][1] = key

\* A variant that is data.get(key): None for a key that is absent.
dict_get_NoDefault(d, key, default) ==
    IF HasKey(d, key)
    THEN d[CHOOSE i \in 1..Len(d) : d[i][1] = key][2]
    ELSE None

\* data.get(key, default)
dict_get(d, key, default) ==
    IF HasKey(d, key)
    THEN d[CHOOSE i \in 1..Len(d) : d[i][1] = key][2]
    ELSE default

\* A variant that deletes the key and adds it again, last.
dict_set_MovesLast(d, key, value) ==
    LET IsOtherKey(m) == m[1] # key
    IN  Append(SelectSeq(d, IsOtherKey), <<key, value>>)

\* data[key] = value: an existing key keeps its place, a new one goes last.
dict_set(d, key, value) ==
    IF HasKey(d, key)
    THEN [i \in 1..Len(d) |-> IF d[i][1] = key THEN <<key, value>> ELSE d[i]]
    ELSE Append(d, <<key, value>>)

\* The dict json.load builds of an object's members, one after the other.
RECURSIVE DictOf(_)
DictOf(members) ==
    IF members = <<>> THEN <<>>
    ELSE LET n == Len(members)
         IN  dict_set(DictOf(SubSeq(members, 1, n - 1)),
                      members[n][1], members[n][2])

\* json.load raises JSONDecodeError: no JSON value, or text other than white
\* space after it.  The bytes after an object are the end of an earlier,
\* longer dump, "...}\n": one byte is a newline, two or more hold a brace.
DecodeError(f) ==
    \/ f.k \in {"empty", "text"}
    \/ f.k = "object" /\ f.tail > 1

(***************************************************************************)
(* The bytes json.dump(data, f, indent=2, ensure_ascii=False) and the      *)
(* f.write('\n') after it write, and the size of a file.                   *)
(***************************************************************************)
KeySize(key) ==
    CASE key = "version" -> 9
      [] key = "name"    -> 6
      [] key = "author"  -> 8
      [] OTHER           -> 3

ValueSize(v) ==
    CASE v.t = "str"  -> Len(v.s) + 2
      [] v.t = "null" -> 4
      [] OTHER        -> Len(v.s)

RECURSIVE MembersSize(_)
MembersSize(d) ==
    IF d = <<>> THEN 0
    ELSE KeySize(d[1][1]) + 2 + ValueSize(d[1][2]) + MembersSize(Tail(d))

\* "{\n" + ",\n".join('  "key": value') + "\n}" + "\n", and "{}\n" when empty.
DumpSize(d) ==
    IF d = <<>> THEN 3
    ELSE 2 + MembersSize(d) + 2 * Len(d) + 2 * (Len(d) - 1) + 2 + 1

\* '{"key": value, "key": value}'
OneLineSize(d) ==
    IF d = <<>> THEN 2
    ELSE 1 + MembersSize(d) + 2 * (Len(d) - 1) + 1

FileSize(f) ==
    CASE f.k = "text"   -> 8
      [] f.k = "array"  -> 3
      [] f.k = "object" ->
           (IF f.fmt = "indent2" THEN DumpSize(f.members)
            ELSE OneLineSize(f.members)) + f.tail
      [] OTHER          -> 0

\* A variant that replaces the file by the text as a whole.
WriteAtStart_Replaces(f, data) == ObjectFile(data, "indent2", 0)

\* The file after the text of data is written at offset 0 and the file is
\* closed: bytes of the file beyond the text written stay.
WriteAtStart(f, data) ==
    LET n == DumpSize(data)
        m == FileSize(f)
    IN  ObjectFile(data, "indent2", IF m > n THEN m - n ELSE 0)

(***************************************************************************)
(* One invocation of the script.  Its state is a record:                   *)
(*   pc       "idle", "read", "open", "dump" or "done"                     *)
(*   argv     sys.argv                                                     *)
(*   bump_type, data, current_version, new_version: the locals of main    *)
(*            and update_plugin_json                                       *)
(*   ret      the pair update_plugin_json returns                          *)
(*   outcome  which report was printed: "usage", "not_found",              *)
(*            "invalid_json", "version_format", "other" or "ok"            *)
(*   status   the exit status, -1 while the process runs                   *)
(*   seen     the file as json.load read it                                *)
(*   fault    the I/O failure the environment raised, "none" if none       *)
(*   accessed whether the invocation tried to open the file                *)
(*   readAt   the number of opens for writing and writes of all processes  *)
(*            that came before the read                                    *)
(***************************************************************************)
Idle ==
    [pc |-> "idle", argv |-> <<>>, bump_type |-> "patch", data |-> <<>>,
     current_version |-> None, new_version |-> None, ret |-> <<None, None>>,
     outcome |-> "none", status |-> -1, seen |-> MissingFile,
     fault |-> "none", accessed |-> FALSE, readAt |-> 0]

\* main, lines 104-109: the exit status of the pair returned.
MainStatus(ret) == IF Truthy(ret[1]) /\ Truthy(ret[2]) THEN 0 ELSE 1

\* update_plugin_json returns (None, None) after the report `kind`; a report
\* of "uncaught" is the traceback of an exception no handler took.
Fail(l, kind) ==
    [l EXCEPT !.pc = "done", !.outcome = kind, !.ret = <<None, None>>,
              !.status = MainStatus(<<None, None>>)]

\* A variant without the last clause, except Exception.
Handler_NoCatchAll(exc) ==
    CASE exc = "FileNotFoundError" -> "not_found"
      [] exc = "JSONDecodeError"   -> "invalid_json"
      [] OTHER                     -> "uncaught"

\* The except clauses of update_plugin_json, lines 74-82: the report each
\* exception ends in.  OSError, AttributeError and the rest are Exceptions.
Handler(exc) ==
    CASE exc = "FileNotFoundError" -> "not_found"
      [] exc = "JSONDecodeError"   -> "invalid_json"
      [] OTHER                     -> "other"

Raise(l, exc) == Fail(l, Handler(exc))

\* A variant that takes an unknown argument for the default kind.
ParseArgs_FallsBack(l, argv) ==
    IF Len(argv) > 1 /\ argv[2] \in {"major", "minor", "patch"}
    THEN [l EXCEPT !.pc = "read", !.argv = argv, !.bump_type = argv[2]]
    ELSE [l EXCEPT !.pc = "read", !.argv = argv, !.bump_type = "patch"]

\* main, lines 91-99.
ParseArgs(l, argv) ==
    IF Len(argv) > 1
    THEN IF argv[2] \in {"major", "minor", "patch"}
         THEN [l EXCEPT !.pc = "read", !.argv = argv, !.bump_type = argv[2]]
         ELSE [l EXCEPT !.pc = "done", !.argv = argv, !.outcome = "usage",
                        !.status = 1]
    ELSE [l EXCEPT !.pc = "read", !.argv = argv, !.bump_type = "patch"]

\* update_plugin_json, lines 55-65: open, json.load, get, bump_version, set.
ReadStep(l, f, fault, at) ==
    IF f.k = "missing"
    THEN Raise([l EXCEPT !.accessed = TRUE], "FileNotFoundError")
    ELSE IF fault = "read"
    THEN Raise([l EXCEPT !.accessed = TRUE, !.fault = fault], "OSError")
    ELSE LET r == [l EXCEPT !.accessed = TRUE, !.seen = f, !.readAt = at]
         IN  IF DecodeError(f) THEN Raise(r, "JSONDecodeError")
             ELSE IF f.k # "object" THEN Raise(r, "AttributeError")
             ELSE LET data == DictOf(f.members)
                      cv == dict_get(data, "version",
                                     Str(<<"0", ".", "0", ".", "0">>))
                      b == bump_version(cv, l.bump_type)
                      s == [r EXCEPT !.data = data, !.current_version = cv]
                  IN  IF b.exc # "none" THEN Raise(s, b.exc)
                      ELSE IF ~Truthy(b.val) THEN Fail(s, "version_format")
                      ELSE [s EXCEPT !.pc = "open",
                                     !.new_version = b.val,
                                     !.data = dict_set(data, "version", b.val)]

\* update_plugin_json, line 68: open(file_path, 'w') truncates the file.
OpenStep(l, fault) ==
    IF fault = "open" THEN Raise([l EXCEPT !.fault = fault], "OSError")
    ELSE [l EXCEPT !.pc = "dump"]

OpenFile(f, fault) == IF fault = "open" THEN f ELSE EmptyFile

\* update_plugin_json, lines 69-72, and main, lines 104-109.
DumpStep(l, fault) ==
    IF fault = "dump" THEN Raise([l EXCEPT !.fault = fault], "OSError")
    ELSE [l EXCEPT !.pc = "done", !.outcome = "ok",
                   !.ret = <<l.current_version, l.new_version>>,
                   !.status = MainStatus(<<l.current_version, l.new_version>>)]

DumpFile(f, l, fault) == IF fault = "dump" THEN f ELSE WriteAtStart(f, l.data)

\* update_plugin_json from call to return with nothing else running: [l, f]
\* is the invocation as it ends and the file it leaves.
update_plugin_json(l, f, fault) ==
    LET l2 == ReadStep(l, f, fault, 0)
        l3 == OpenStep(l2, fault)
        f3 == OpenFile(f, fault)
        l4 == DumpStep(l3, fault)
        f4 == DumpFile(f3, l3, fault)
    IN  IF l2.pc = "done" THEN [l |-> l2, f |-> f]
        ELSE IF l3.pc = "done" THEN [l |-> l3, f |-> f3]
        ELSE [l |-> l4, f |-> f4]

\* main from start to exit.
main(argv, f, fault) ==
    LET l1 == ParseArgs(Idle, argv)
    IN  IF l1.pc = "done" THEN [l |-> l1, f |-> f]
        ELSE update_plugin_json(l1, f, fault)

VARIABLES
    file,      \* the manifest file
    proc,      \* the invocations, by process
    written,   \* Spec: the successful bumps so far, [old, kind, new] each
    wlog,      \* ConcSpec: the opens for writing and the writes, in order
    bump_in,   \* BumpSpec: the string handed to bump_version
    bump_kind, \* BumpSpec: the kind handed to it, "uncalled" before the call
    bump_out   \* BumpSpec: what bump_version gave

vars == <<file, proc, written, wlog, bump_in, bump_kind, bump_out>>

Procs == {"p1", "p2"}

\* The I/O failures the environment may raise: on the read, on the open for
\* writing, on the write.
Faults == {"none", "read", "open", "dump"}

Prog == "bump_version.py"

Argvs == {<<Prog>>, <<Prog, "patch">>, <<Prog, "minor">>, <<Prog, "major">>,
          <<Prog, "wrong">>}

(***************************************************************************)
(* The files an invocation may find.                                       *)
(***************************************************************************)
VersionValues ==
    { Str(<<"1", ".", "0", ".", "3">>),
      Str(<<"1", ".", "1", "0", ".", "1", "0">>),
      Str(<<"1", ".", "2">>),
      Str(<<"a", ".", "b", ".", "c">>),
      Str(<<"1", ".", "2", ".", "3", ".", "4">>),
      Str(<<>>),
      Str(<<"-", "1", ".", "2", ".", "3">>),
      Str(<<" ", "1", "_", "0", ".", "+", "2", ".", "0", "9">>),
      Num(<<"5">>),
      Null }

Members ==
    {<<"version", v>> : v \in VersionValues}
        \cup {<<"name", Str(<<"x">>)>>, <<"name", Str(<<"y">>)>>,
              <<"author", Null>>}

InitFiles ==
    {MissingFile, EmptyFile, TextFile, ArrayFile}
        \cup {ObjectFile(m, "oneline", 0) :
                 m \in UNION {[1..n -> Members] : n \in 0..MaxMembers}}

NoBump ==
    /\ bump_in = <<>>
    /\ bump_kind = "uncalled"
    /\ bump_out = [exc |-> "none", val |-> None]

Init ==
    /\ file \in InitFiles
    /\ proc = [p \in Procs |-> Idle]
    /\ written = <<>>
    /\ wlog = <<>>
    /\ NoBump

(***************************************************************************)
(* Spec: invocations one after the other, each from start to exit.         *)
(***************************************************************************)
Invoke ==
    /\ Len(written) < MaxRuns
    /\ \E argv \in Argvs, fault \in Faults :
          \E r \in {main(argv, file, fault)} :
              /\ proc' = [proc EXCEPT !["p1"] = r.l]
              /\ file' = r.f
              /\ written' =
                    IF r.l.outcome = "ok"
                    THEN Append(written, [old |-> r.l.current_version,
                                          kind |-> r.l.bump_type,
                                          new |-> r.l.new_version])
                    ELSE written
    /\ UNCHANGED <<wlog, bump_in, bump_kind, bump_out>>

Next == Invoke

Spec == Init /\ [][Next]_vars

(***************************************************************************)
(* ConcSpec: two invocations at once, each run once.  A process is         *)
(* interleaved with the other between its system calls: the read, the open *)
(* for writing, and the write (json.dump and f.write go to the file's      *)
(* buffer, which reaches the file when the with block closes it).          *)
(***************************************************************************)
Start(p) ==
    /\ proc[p].pc = "idle"
    /\ \E argv \in Argvs : proc' = [proc EXCEPT ![p] = ParseArgs(proc[p], argv)]
    /\ UNCHANGED <<file, written, wlog, bump_in, bump_kind, bump_out>>

Read(p) ==
    /\ proc[p].pc = "read"
    /\ \E fault \in {"none", "read"} :
          proc' = [proc EXCEPT ![p] = ReadStep(proc[p], file, fault, Len(wlog))]
    /\ UNCHANGED <<file, written, wlog, bump_in, bump_kind, bump_out>>

OpenForWrite(p) ==
    /\ proc[p].pc = "open"
    /\ \E fault \in {"none", "open"} :
          /\ proc' = [proc EXCEPT ![p] = OpenStep(proc[p], fault)]
          /\ file' = OpenFile(file, fault)
          /\ wlog' = IF fault = "none" THEN Append(wlog, <<p, "open">>) ELSE wlog
    /\ UNCHANGED <<written, bump_in, bump_kind, bump_out>>

Dump(p) ==
    /\ proc[p].pc = "dump"
    /\ \E fault \in {"none", "dump"} :
          /\ proc' = [proc EXCEPT ![p] = DumpStep(proc[p], fault)]
          /\ file' = DumpFile(file, proc[p], fault)
          /\ wlog' = IF fault = "none" THEN Append(wlog, <<p, "dump">>) ELSE wlog
    /\ UNCHANGED <<written, bump_in, bump_kind, bump_out>>

ConcNext == \E p \in Procs : Start(p) \/ Read(p) \/ OpenForWrite(p) \/ Dump(p)

ConcSpec == Init /\ [][ConcNext]_vars


(***************************************************************************)
(* BumpSpec: bump_version applied once to every string of at most MaxLen   *)
(* characters of Alphabet, with each kind and with the kind left out.      *)
(***************************************************************************)
Alphabet == {"0", "9", ".", "-", "+", "x"}

Strings(n) == UNION {[1..m -> Alphabet] : m \in 0..n}

BumpTypes == {"major", "minor", "patch"}

BumpInit ==
    /\ file = MissingFile
    /\ proc = [p \in Procs |-> Idle]
    /\ written = <<>>
    /\ wlog = <<>>
    /\ bump_in \in Strings(MaxLen)
    /\ bump_kind = "uncalled"
    /\ bump_out = [exc |-> "none", val |-> None]

\* bump_version(version_str, bump_type)
BumpWithKind ==
    /\ bump_kind = "uncalled"
    /\ \E k \in BumpTypes :
          /\ bump_kind' = k
          /\ bump_out' = bump_version(Str(bump_in), k)
    /\ UNCHANGED <<bump_in, file, proc, written, wlog>>

\* bump_version(version_str): the kind takes its default.
BumpDefault ==
    /\ bump_kind = "uncalled"
    /\ bump_kind' = "default"
    /\ bump_out' = bump_version(Str(bump_in), DefaultBumpType)
    /\ UNCHANGED <<bump_in, file, proc, written, wlog>>

BumpNext == BumpWithKind \/ BumpDefault

BumpSpec == BumpInit /\ [][BumpNext]_vars


(***************************************************************************)
(* What the claims speak of.                                               *)
(***************************************************************************)
Dot == <<".">>

V(a, b, c) == Str(NatToStr(a) \o Dot \o NatToStr(b) \o Dot \o NatToStr(c))

AllDigits(s) == Len(s) > 0 /\ \A i \in 1..Len(s) : IsDigit(s[i])

\* "X.Y.Z" with X, Y and Z written in digits.
PlainVersion(s) ==
    LET p == Split(s)
    IN  Len(p) = 3 /\ \A i \in 1..3 : AllDigits(p[i])

\* The string splits into exactly three fields that int() takes.
ThreeIntegers(s) ==
    LET p == Split(s)
    IN  Len(p) = 3 /\ \A i \in 1..3 : IsIntLiteral(p[i])

\* The i-th component of a version of three integers.
Component(s, i) == IntOf(Split(s)[i])

KindIndex(kind) ==
    CASE kind = "major" -> 1 [] kind = "minor" -> 2 [] OTHER -> 3

IsOther(m) == m[1] # "version"

\* The members of a dict other than version, in order.
Others(d) == SelectSeq(d, IsOther)

Keys(d) == [i \in 1..Len(d) |-> d[i][1]]

\* The invocation of Spec.
Main == proc["p1"]

(***************************************************************************)
(* C1: for every "X.Y.Z" of non-negative integers, bump_version returns    *)
(* "X.Y.(Z+1)" for patch and for no kind, "X.(Y+1).0" for minor and        *)
(* "(X+1).0.0" for major.                                                  *)
(***************************************************************************)
C1_BumpIncrements ==
    (bump_kind # "uncalled" /\ PlainVersion(bump_in)) =>
        LET p == Split(bump_in)
            X == NatOf(p[1])
            Y == NatOf(p[2])
            Z == NatOf(p[3])
        IN  /\ bump_out.exc = "none"
            /\ bump_kind \in {"patch", "default"} => bump_out.val = V(X, Y, Z + 1)
            /\ bump_kind = "minor" => bump_out.val = V(X, Y + 1, 0)
            /\ bump_kind = "major" => bump_out.val = V(X + 1, 0, 0)

C1_Witness ==
    /\ bump_in = <<"0", "9", ".", "9", ".", "9">>
    /\ bump_kind = "minor"
    /\ bump_out.val = Str(<<"9", ".", "1", "0", ".", "0">>)

(***************************************************************************)
(* C2: after a successful update_plugin_json the manifest in the file has  *)
(* the keys it had, in the order it had them, and every key but version    *)
(* has the value it had; version is the only key added when it was absent. *)
(***************************************************************************)
C2_OtherFieldsKept ==
    Main.outcome = "ok" =>
        LET before == DictOf(Main.seen.members)
            after == DictOf(file.members)
        IN  /\ file.k = "object"
            /\ Others(after) = Others(before)
            /\ Keys(after) = IF HasKey(before, "version") THEN Keys(before)
                             ELSE Append(Keys(before), "version")
            /\ dict_get(after, "version", None) = Main.new_version
            /\ Main.new_version # dict_get(before, "version", None)

C2_Witness ==
    /\ Main.outcome = "ok"
    /\ Main.seen.members = <<<<"version", Str(<<"1", ".", "0", ".", "3">>)>>,
                             <<"name", Str(<<"x">>)>>>>
    /\ file.members = <<<<"version", Str(<<"1", ".", "0", ".", "4">>)>>,
                        <<"name", Str(<<"x">>)>>>>

(***************************************************************************)
(* C3: a version string that does not split into exactly three integer     *)
(* fields ends in the version-format report: bump_version gives no new     *)
(* version, nothing is written and the file is as it was, and the exit     *)
(* status is 1.                                                            *)
(***************************************************************************)
C3_MalformedVersionRejected ==
    (/\ Main.pc = "done"
     /\ Main.current_version.t = "str"
     /\ ~ThreeIntegers(Main.current_version.s)) =>
        /\ Main.outcome = "version_format"
        /\ Main.new_version = None
        /\ Main.ret = <<None, None>>
        /\ file = Main.seen
        /\ Main.status = 1

C3_Witness ==
    /\ Main.outcome = "version_format"
    /\ Main.current_version = Str(<<"1", ".", "2", ".", "3", ".", "4">>)
    /\ file = Main.seen
    /\ Main.status = 1

(***************************************************************************)
(* C4: with a first argument that is not major, minor or patch, main       *)
(* prints the usage and exits 1 before it opens the file, which stays as   *)
(* it was; with no argument the kind is patch.                             *)
(***************************************************************************)
C4_BadArgumentLeavesFile ==
    [][LET l == proc'["p1"]
       IN  /\ (Len(l.argv) > 1 /\ l.argv[2] \notin {"major", "minor", "patch"}) =>
                 /\ l.pc = "done"
                 /\ l.outcome = "usage"
                 /\ l.status = 1
                 /\ ~l.accessed
                 /\ file' = file
           /\ Len(l.argv) = 1 => l.bump_type = "patch"]_vars

C4_Witness ==
    /\ Main.argv = <<Prog, "wrong">>
    /\ Main.outcome = "usage"
    /\ Main.status = 1
    /\ file.k = "object"

(***************************************************************************)
(* C5: every invocation ends with exit status 0 or 1 and no exception      *)
(* leaves it uncaught; the status is 0 exactly when the manifest was read, *)
(* a new version computed and the file rewritten with it, and 1 for a bad  *)
(* argument, a missing file, content that is no JSON object, a malformed   *)
(* or non-string version and any I/O failure.                              *)
(***************************************************************************)
C5_ExitStatus ==
    Main.pc = "done" =>
        /\ Main.status \in {0, 1}
        /\ Main.outcome \in {"usage", "not_found", "invalid_json",
                             "version_format", "other", "ok"}
        /\ Main.status = 0 <=>
              /\ Main.accessed
              /\ Main.seen.k = "object"
              /\ Main.new_version.t = "str"
              /\ file = ObjectFile(Main.data, "indent2", 0)
              /\ dict_get(file.members, "version", None) = Main.new_version
        /\ (\/ Main.outcome # "ok"
            \/ Main.fault # "none"
            \/ ~Main.accessed
            \/ Main.seen.k # "object"
            \/ DecodeError(Main.seen)
            \/ Main.current_version.t # "str"
            \/ ~ThreeIntegers(Main.current_version.s)) => Main.status = 1

C5_Witness ==
    /\ Main.pc = "done"
    /\ Main.status = 1
    /\ Main.outcome = "other"
    /\ Main.current_version = Num(<<"5">>)

(***************************************************************************)
(* C6: a well-formed JSON object with no version key does not fail: the    *)
(* current version is "0.0.0", the file gets a version key that holds its  *)
(* bump, the pair ("0.0.0", new version) is returned and the exit status   *)
(* is 0.                                                                   *)
(***************************************************************************)
C6_MissingVersionDefaults ==
    (/\ Main.pc = "done"
     /\ Main.seen.k = "object"
     /\ ~DecodeError(Main.seen)
     /\ ~HasKey(DictOf(Main.seen.members), "version")
     /\ Main.fault = "none") =>
        LET new == CASE Main.bump_type = "major" -> V(1, 0, 0)
                     [] Main.bump_type = "minor" -> V(0, 1, 0)
                     [] OTHER                    -> V(0, 0, 1)
        IN  /\ Main.outcome = "ok"
            /\ Main.ret = <<V(0, 0, 0), new>>
            /\ file.k = "object"
            /\ file.members = Append(DictOf(Main.seen.members), <<"version", new>>)
            /\ Main.status = 0

C6_Witness ==
    /\ Main.pc = "done"
    /\ Main.seen = ObjectFile(<<<<"name", Str(<<"x">>)>>>>, "oneline", 0)
    /\ Main.bump_type = "minor"
    /\ Main.ret = <<V(0, 0, 0), V(0, 1, 0)>>
    /\ Main.status = 0

(***************************************************************************)
(* C7: the error conditions of update_plugin_json (no file, content that   *)
(* is not JSON, a version bump_version does not take, any other I/O        *)
(* failure) are each reported as their own kind, a version that is not a   *)
(* string as a version-format error.                                       *)
(***************************************************************************)
C7_ErrorKindsDistinct ==
    (Main.pc = "done" /\ Main.accessed) =>
        /\ Main.fault # "none" => Main.outcome = "other"
        /\ (Main.fault = "none" /\ file.k = "missing") => Main.outcome = "not_found"
        /\ DecodeError(Main.seen) => Main.outcome = "invalid_json"
        /\ (/\ Main.fault = "none"
            /\ Main.seen.k = "object"
            /\ ~DecodeError(Main.seen)
            /\ \/ Main.current_version.t # "str"
               \/ ~ThreeIntegers(Main.current_version.s)) =>
                 /\ Main.outcome = "version_format"
                 /\ Main.ret = <<None, None>>

(***************************************************************************)
(* C8: the same kind applied twice in a row never gives the same version   *)
(* twice, the component it targets grows at each application, and over     *)
(* successful invocations one after the other no version written equals    *)
(* one written before.                                                     *)
(***************************************************************************)
C8_NeverSameVersionTwice ==
    /\ \A i, j \in 1..Len(written) : i < j => written[i].new # written[j].new
    /\ \A i \in 1..Len(written) :
          LET c == KindIndex(written[i].kind)
          IN  /\ written[i].new # written[i].old
              /\ Component(written[i].new.s, c) > Component(written[i].old.s, c)
    /\ \A i \in 1..(Len(written) - 1) :
          written[i].kind = written[i + 1].kind =>
              LET c == KindIndex(written[i].kind)
              IN  /\ written[i + 1].old = written[i].new
                  /\ Component(written[i + 1].new.s, c)
                        > Component(written[i].new.s, c)

C8_Witness ==
    /\ Len(written) = 3
    /\ written[1].kind = "major"
    /\ written[2].kind = "major"
    /\ written[3].kind = "patch"
    /\ written[3].new = Str(<<"3", ".", "0", ".", "1">>)

(***************************************************************************)
(* C9: the version a successful bump writes is three non-negative          *)
(* integers joined by dots, and a current version with a component that    *)
(* is not a non-negative integer is never taken and bumped.                *)
(***************************************************************************)
C9_ThreeNonNegativeIntegers ==
    Main.outcome = "ok" =>
        /\ ThreeIntegers(Main.new_version.s)
        /\ \A i \in 1..3 : Component(Main.new_version.s, i) >= 0
        /\ dict_get(DictOf(file.members), "version", None) = Main.new_version
        /\ \A i \in 1..3 : Component(Main.current_version.s, i) >= 0

(***************************************************************************)
(* Two invocations at once: what C10 speaks of.                            *)
(***************************************************************************)
\* Both invocations read the file before any open for writing, and both
\* wrote it.
BothReadThenWrote ==
    \A p \in Procs :
        /\ proc[p].pc = "done"
        /\ proc[p].outcome = "ok"
        /\ proc[p].readAt = 0

\* The invocation that wrote last, and the other one.
LastWriter == wlog[Len(wlog)][1]

FirstWriter == CHOOSE p \in Procs : p # LastWriter

\* Both had the file open for writing at once.
WritesOverlap == wlog[1][2] = "open" /\ wlog[2][2] = "open"

\* The file holds the manifest of the last writer, one bump of what both read.
LastWriteWins ==
    LET w == proc[LastWriter]
    IN  /\ file.k = "object"
        /\ file.members = w.data
        /\ w.seen = proc[FirstWriter].seen
        /\ w.current_version = proc[FirstWriter].current_version
        /\ dict_get(file.members, "version", None) = w.new_version
        /\ w.new_version = bump_version(w.current_version, w.bump_type).val
        /\ \A i \in 1..3 :
              Component(w.new_version.s, i) <= Component(w.current_version.s, i) + 1

\* No I/O failure: an invocation that read the manifest and computed a new
\* version exits 0.
ExitsZero ==
    \A p \in Procs :
        (/\ proc[p].pc = "done"
         /\ proc[p].new_version # None
         /\ proc[p].fault = "none") => proc[p].status = 0

\* A read of the truncated file ends in the invalid-JSON report.
TruncatedReadFails ==
    \A p \in Procs :
        (proc[p].pc = "done" /\ proc[p].accessed /\ proc[p].seen.k = "empty") =>
            /\ proc[p].outcome = "invalid_json"
            /\ proc[p].status = 1

(***************************************************************************)
(* C10 as claimed: nothing locks the manifest.  When two invocations both  *)
(* read the file before either writes it, both exit 0 and the file ends    *)
(* holding only the result of the one that wrote last, computed from the   *)
(* version both read (one bump is lost); an invocation that reads the file *)
(* while another has truncated and not yet written it ends in the          *)
(* invalid-JSON report.                                                    *)
(***************************************************************************)
C10_LastWriteWinsOnly ==
    /\ ExitsZero
    /\ TruncatedReadFails
    /\ BothReadThenWrote => (LastWriteWins /\ file.tail = 0)

(***************************************************************************)
(* C10 as amended: as above, but the file ends holding the last writer's   *)
(* result followed by the bytes of the earlier write beyond its length     *)
(* when both had the file open for writing at once and the earlier write   *)
(* was the longer one; otherwise it holds only the last writer's result.   *)
(***************************************************************************)
C10_LastWriteWins ==
    /\ ExitsZero
    /\ TruncatedReadFails
    /\ BothReadThenWrote =>
          /\ LastWriteWins
          /\ LET n == DumpSize(proc[LastWriter].data)
                 m == DumpSize(proc[FirstWriter].data)
             IN  file.tail = IF WritesOverlap /\ m > n THEN m - n ELSE 0

C10_Witness ==
    /\ BothReadThenWrote
    /\ WritesOverlap
    /\ LastWriteWins
    /\ proc[LastWriter].bump_type = "major"
    /\ proc[FirstWriter].bump_type = "patch"
    /\ file.tail = 2
    /\ DecodeError(file)

=============================================================================
